---- MODULE Spec2Model ----
(***************************************************************************)
(* Model of pybamm-supporting-material:                                    *)
(*   src/2022-show-and-tell/bpx_lgm50.py  six correlation functions and    *)
(*                                        the parameter_values table       *)
(*   src/test.py                          unit test of squared()           *)
(*                                                                         *)
(* Python floats are modelled by exact decimal numbers m * 10^e (Dec) and, *)
(* where the code divides, by exact fractions n / d (Rat).  exp and the    *)
(* square roots are kept as symbolic nodes, as pybamm keeps them in its    *)
(* expression tree; their order and sign are decided from their arguments. *)
(***************************************************************************)
EXTENDS Integers, Sequences, FiniteSets, TLC

----------------------------------------------------------------------------
(* Integer helpers *)

Abs(n) == IF n < 0 THEN -n ELSE n

Sign(n) == IF n < 0 THEN -1 ELSE IF n = 0 THEN 0 ELSE 1

RECURSIVE GCD(_, _)
GCD(a, b) == IF b = 0 THEN a ELSE GCD(b, a % b)

RECURSIVE Pow10(_)
Pow10(k) == IF k = 0 THEN 1 ELSE 10 * Pow10(k - 1)

Min(a, b) == IF a < b THEN a ELSE b

----------------------------------------------------------------------------
(* Decimal numbers: [m, e] stands for m * 10^e, kept without trailing      *)
(* zeros in m, so that equal numbers are equal records.                    *)

RECURSIVE DNorm(_, _)
DNorm(m, e) ==
    IF m = 0 THEN [m |-> 0, e |-> 0]
    ELSE IF m % 10 = 0 THEN DNorm(m \div 10, e + 1)
    ELSE [m |-> m, e |-> e]

Dec(m, e) == DNorm(m, e)

\* A float literal with more digits than a 32-bit mantissa holds:
\* (hi * 10^9 + lo) * 10^e.
Long(hi, lo, e) == [hi |-> hi, lo |-> lo, e |-> e]

DAdd(a, b) ==
    IF a.m = 0 THEN b
    ELSE IF b.m = 0 THEN a
    ELSE LET e == Min(a.e, b.e)
         IN  DNorm(a.m * Pow10(a.e - e) + b.m * Pow10(b.e - e), e)

DNeg(a) == [m |-> -a.m, e |-> a.e]

DSub(a, b) == DAdd(a, DNeg(b))

DMul(a, b) == DNorm(a.m * b.m, a.e + b.e)

\* a / 10^k
DDivPow10(a, k) == DNorm(a.m, a.e - k)

RECURSIVE DPow(_, _)
DPow(a, n) == IF n = 0 THEN Dec(1, 0) ELSE DMul(a, DPow(a, n - 1))

DSign(a) == Sign(a.m)

DLe(a, b) == DSign(DSub(a, b)) <= 0

DLt(a, b) == DSign(DSub(a, b)) < 0

\* a ** 0.5 for a decimal that is the square of a decimal
DSqrt(a) ==
    LET m == IF a.e % 2 = 0 THEN a.m ELSE a.m * 10
        e == IF a.e % 2 = 0 THEN a.e ELSE a.e - 1
        r == CHOOSE r \in 0..m : r * r = m
    IN  DNorm(r, e \div 2)

\* a ** 1.5
DPow15(a) == DMul(a, DSqrt(a))

----------------------------------------------------------------------------
(* Fractions: [n, d] stands for n / d, d > 0, in lowest terms.             *)

RNorm(n, d) ==
    LET g == GCD(Abs(n), Abs(d))
        s == IF d < 0 THEN -1 ELSE 1
    IN  [n |-> s * (n \div g), d |-> s * (d \div g)]

\* the fraction equal to a decimal
RatOf(a) == IF a.e >= 0 THEN [n |-> a.m * Pow10(a.e), d |-> 1]
            ELSE RNorm(a.m, Pow10(-a.e))

\* 1 / a
RInv(a) == RNorm(a.d, a.n)

RMul(a, b) ==
    LET g1 == GCD(Abs(a.n), b.d)
        g2 == GCD(Abs(b.n), a.d)
    IN  RNorm((a.n \div g1) * (b.n \div g2), (a.d \div g2) * (b.d \div g1))

RSub(a, b) ==
    LET l == (a.d \div GCD(a.d, b.d)) * b.d
    IN  RNorm(a.n * (l \div a.d) - b.n * (l \div b.d), l)

RSign(a) == Sign(a.n)

----------------------------------------------------------------------------
(* The values a parameter table holds: a number or one of the module's     *)
(* functions.                                                              *)

Const(v) == [kind |-> "const", value |-> v]

Fn(name) == [kind |-> "function", name |-> name]

----------------------------------------------------------------------------
(* pybamm symbols built by the module's functions *)

\* constants.R, the molar gas constant 8.314462618 J.mol-1.K-1
GasConstantR == Long(8, 314462618, -9)

\* pybamm.Parameter(name): a reference, by name, to an entry of the table
\* the expression is later processed with
Parameter(name) == [parameter |-> name]

\* pybamm.exp(x)
exp(x) == [fn |-> "exp", arg |-> x]

LongSign(a) == IF a.hi # 0 THEN Sign(a.hi) ELSE Sign(a.lo)

\* The argument of an Arrhenius exponential is the product of coef, which is
\* num / den with den the gas constant, and diff; it is kept in its factors.
ExpArgSign(x) == DSign(x.coef.num) * LongSign(x.coef.den) * RSign(x.diff)

\* x < y for two such arguments: decided from the signs and, for two
\* arguments of one sign, from their quotient, in which the gas constant
\* cancels
ExpArgLess(x, y) ==
    IF ExpArgSign(x) # ExpArgSign(y) THEN ExpArgSign(x) < ExpArgSign(y)
    ELSE IF ExpArgSign(x) = 0 THEN FALSE
    ELSE LET q == RMul(RMul(RatOf(x.coef.num), RInv(RatOf(y.coef.num))),
                       RMul(x.diff, RInv(y.diff)))
         IN  IF ExpArgSign(x) > 0 THEN q.n < q.d ELSE q.n > q.d

\* exp is strictly increasing, and exp(x) = 1 exactly when x = 0
ExpLess(a, b) == ExpArgLess(a.arg, b.arg)

ExpIsOne(a) == ExpArgSign(a.arg) = 0

\* The Arrhenius factor with its two reciprocals exchanged
Arrhenius_Exchanged(E_r, T) ==
    exp([coef |-> [num |-> E_r, den |-> GasConstantR],
         diff |-> RSub(RInv(RatOf(T)), RInv(RatOf(Dec(29815, -2))))])

\* exp(E_r / constants.R * (1 / 298.15 - 1 / T)); the product is kept in
\* its two factors, E_r / R and 1 / 298.15 - 1 / T
Arrhenius(E_r, T) ==
    exp([coef |-> [num |-> E_r, den |-> GasConstantR],
         diff |-> RSub(RInv(RatOf(Dec(29815, -2))), RInv(RatOf(T)))])

----------------------------------------------------------------------------
(* src/2022-show-and-tell/bpx_lgm50.py: the six correlation functions *)

\* The diffusivity with the sign of its linear term lost
electrolyte_diffusivity_SignSlip(c_e, T) ==
    LET x == DDivPow10(c_e, 3)
    IN  DAdd(DAdd(DMul(Dec(8794, -14), DPow(x, 2)), DMul(Dec(3972, -13), x)),
             Dec(4862, -13))

electrolyte_diffusivity_Nyman2008(c_e, T) ==
    LET x == DDivPow10(c_e, 3)
        D_c_e == DAdd(DSub(DMul(Dec(8794, -14), DPow(x, 2)),
                           DMul(Dec(3972, -13), x)),
                      Dec(4862, -13))
    IN  D_c_e

\* The conductivity with a correction linear in the temperature added
electrolyte_conductivity_WithTemperature(c_e, T) ==
    LET x == DDivPow10(c_e, 3)
        sigma_e == DAdd(DSub(DMul(Dec(1297, -4), DPow(x, 3)),
                             DMul(Dec(251, -2), DPow15(x))),
                        DMul(Dec(3329, -3), x))
    IN  DMul(sigma_e, DSub(T, Dec(29715, -2)))

electrolyte_conductivity_Nyman2008(c_e, T) ==
    LET x == DDivPow10(c_e, 3)
        sigma_e == DAdd(DSub(DMul(Dec(1297, -4), DPow(x, 3)),
                             DMul(Dec(251, -2), DPow15(x))),
                        DMul(Dec(3329, -3), x))
    IN  sigma_e

\* The graphite function with the maximum concentration written in place
\* of the Parameter
graphite_HardCodedMaximum(c_e, c_s_surf, T) ==
    [m_ref |-> Dec(648, -9), arrhenius |-> Arrhenius(Dec(35000, 0), T),
     roots |-> <<c_e, c_s_surf, [minuend |-> Dec(33133, 0), subtrahend |-> c_s_surf]>>]

\* The graphite function with the difference under the third root turned
\* round
graphite_DifferenceTurned(c_e, c_s_surf, T) ==
    [m_ref |-> Dec(648, -9), arrhenius |-> Arrhenius(Dec(35000, 0), T),
     roots |-> <<c_e, c_s_surf,
                 [minuend |-> c_s_surf,
                  subtrahend |-> Parameter("Maximum concentration in negative electrode [mol.m-3]")]>>]

\* The returned product m_ref * arrhenius * c_e**0.5 * c_s_surf**0.5 *
\* (c_max - c_s_surf)**0.5: its factor, its exponential and the three
\* numbers under the square roots, in the order of the source.
graphite_LGM50_electrolyte_exchange_current_density_Chen2020(c_e, c_s_surf, T) ==
    LET m_ref == Dec(648, -9)
        E_r == Dec(35000, 0)
        arrhenius == Arrhenius(E_r, T)
        c_n_max == Parameter("Maximum concentration in negative electrode [mol.m-3]")
    IN  [m_ref |-> m_ref, arrhenius |-> arrhenius,
         roots |-> <<c_e, c_s_surf, [minuend |-> c_n_max, subtrahend |-> c_s_surf]>>]

\* The NMC function with the activation energy of the graphite function
nmc_GraphiteActivationEnergy(c_e, c_s_surf, T) ==
    [m_ref |-> Dec(342, -8), arrhenius |-> Arrhenius(Dec(35000, 0), T),
     roots |-> <<c_e, c_s_surf,
                 [minuend |-> Parameter("Maximum concentration in positive electrode [mol.m-3]"),
                  subtrahend |-> c_s_surf]>>]

nmc_LGM50_electrolyte_exchange_current_density_Chen2020(c_e, c_s_surf, T) ==
    LET m_ref == Dec(342, -8)
        E_r == Dec(17800, 0)
        arrhenius == Arrhenius(E_r, T)
        c_p_max == Parameter("Maximum concentration in positive electrode [mol.m-3]")
    IN  [m_ref |-> m_ref, arrhenius |-> arrhenius,
         roots |-> <<c_e, c_s_surf, [minuend |-> c_p_max, subtrahend |-> c_s_surf]>>]

\* One term coef * f(slope * (sto - centre)) of an open-circuit potential
OcpTerm(coef, f, slope, sto, centre) ==
    [coef |-> coef, fn |-> f, slope |-> slope, shift |-> DSub(sto, centre)]

\* u_eq as the sum of its terms, in the order of the source
graphite_LGM50_ocp_Chen2020(sto) ==
    LET u_eq == <<OcpTerm(Dec(19793, -4), "exp", Dec(-393631, -4), sto, Dec(0, 0)),
                  OcpTerm(Dec(2482, -4), "one", Dec(0, 0), sto, Dec(0, 0)),
                  OcpTerm(Dec(-909, -4), "tanh", Dec(298538, -4), sto, Dec(1234, -4)),
                  OcpTerm(Dec(-4478, -5), "tanh", Dec(149159, -4), sto, Dec(2769, -4)),
                  OcpTerm(Dec(-205, -4), "tanh", Dec(304444, -4), sto, Dec(6103, -4))>>
    IN  u_eq

nmc_LGM50_ocp_Chen2020(sto) ==
    LET u_eq == <<OcpTerm(Dec(-8090, -4), "linear", Dec(1, 0), sto, Dec(0, 0)),
                  OcpTerm(Dec(44875, -4), "one", Dec(0, 0), sto, Dec(0, 0)),
                  OcpTerm(Dec(-428, -4), "tanh", Dec(185138, -4), sto, Dec(5542, -4)),
                  OcpTerm(Dec(-177326, -4), "tanh", Dec(157890, -4), sto, Dec(3117, -4)),
                  OcpTerm(Dec(175842, -4), "tanh", Dec(159308, -4), sto, Dec(3120, -4))>>
    IN  u_eq

----------------------------------------------------------------------------
(* The parameter table *)

TableLiteral ==
    <<
       <<"1 + dlnf/dlnc",
           Const(Dec(1, 0))>>,
       <<"Ambient temperature [K]",
           Const(Dec(29815, -2))>>,
       <<"Cation transference number",
           Const(Dec(2594, -4))>>,
       <<"Cell cooling surface area [m2]",
           Const(Dec(46, -4))>>,
       <<"Cell volume [m3]",
           Const(Dec(242, -7))>>,
       <<"Current function [A]",
           Const(Dec(5, 0))>>,
       <<"Electrode height [m]",
           Const(Dec(65, -3))>>,
       <<"Electrode width [m]",
           Const(Dec(158, -2))>>,
       <<"Electrolyte conductivity [S.m-1]",
           Fn("electrolyte_conductivity_Nyman2008")>>,
       <<"Electrolyte diffusivity [m2.s-1]",
           Fn("electrolyte_diffusivity_Nyman2008")>>,
       <<"Initial concentration in electrolyte [mol.m-3]",
           Const(Dec(1, 3))>>,
       <<"Initial concentration in negative electrode [mol.m-3]",
           Const(Dec(29866, 0))>>,
       <<"Initial concentration in positive electrode [mol.m-3]",
           Const(Dec(17038, 0))>>,
       <<"Initial temperature [K]",
           Const(Dec(29815, -2))>>,
       <<"Lower voltage cut-off [V]",
           Const(Dec(25, -1))>>,
       <<"Maximum concentration in negative electrode [mol.m-3]",
           Const(Dec(33133, 0))>>,
       <<"Maximum concentration in positive electrode [mol.m-3]",
           Const(Dec(63104, 0))>>,
       <<"Negative current collector conductivity [S.m-1]",
           Const(Dec(58411, 3))>>,
       <<"Negative current collector density [kg.m-3]",
           Const(Dec(896, 1))>>,
       <<"Negative current collector specific heat capacity [J.kg-1.K-1]",
           Const(Long(6207659, 832284165, -13))>>,
       <<"Negative current collector thermal conductivity [W.m-1.K-1]",
           Const(Dec(401, 0))>>,
       <<"Negative current collector thickness [m]",
           Const(Dec(12, -6))>>,
       <<"Negative electrode active material volume fraction",
           Const(Dec(75, -2))>>,
       <<"Negative electrode Bruggeman coefficient (electrode)",
           Const(Dec(15, -1))>>,
       <<"Negative electrode Bruggeman coefficient (electrolyte)",
           Const(Dec(15, -1))>>,
       <<"Negative electrode conductivity [S.m-1]",
           Const(Dec(215, 0))>>,
       <<"Negative electrode density [kg.m-3]",
           Const(Dec(1657, 0))>>,
       <<"Negative electrode diffusivity [m2.s-1]",
           Const(Dec(33, -15))>>,
       <<"Negative electrode electrons in reaction",
           Const(Dec(1, 0))>>,
       <<"Negative electrode exchange-current density [A.m-2]",
           Fn("graphite_LGM50_electrolyte_exchange_current_density_Chen2020")>>,
       <<"Negative electrode OCP [V]",
           Fn("graphite_LGM50_ocp_Chen2020")>>,
       <<"Negative electrode OCP entropic change [V.K-1]",
           Const(Dec(0, 0))>>,
       <<"Negative electrode porosity",
           Const(Dec(25, -2))>>,
       <<"Negative electrode specific heat capacity [J.kg-1.K-1]",
           Const(Long(11286654, 240516666, -13))>>,
       <<"Negative electrode thermal conductivity [W.m-1.K-1]",
           Const(Dec(17, -1))>>,
       <<"Negative electrode thickness [m]",
           Const(Dec(852, -7))>>,
       <<"Negative particle radius [m]",
           Const(Dec(586, -8))>>,
       <<"Nominal cell capacity [A.h]",
           Const(Dec(5, 0))>>,
       <<"Number of cells connected in series to make a battery",
           Const(Dec(1, 0))>>,
       <<"Number of electrodes connected in parallel to make a cell",
           Const(Dec(1, 0))>>,
       <<"Positive current collector conductivity [S.m-1]",
           Const(Dec(36914, 3))>>,
       <<"Positive current collector density [kg.m-3]",
           Const(Dec(27, 2))>>,
       <<"Positive current collector specific heat capacity [J.kg-1.K-1]",
           Const(Long(14463041, 219633499, -13))>>,
       <<"Positive current collector thermal conductivity [W.m-1.K-1]",
           Const(Dec(237, 0))>>,
       <<"Positive current collector thickness [m]",
           Const(Dec(16, -6))>>,
       <<"Positive electrode active material volume fraction",
           Const(Dec(665, -3))>>,
       <<"Positive electrode Bruggeman coefficient (electrode)",
           Const(Dec(15, -1))>>,
       <<"Positive electrode Bruggeman coefficient (electrolyte)",
           Const(Dec(15, -1))>>,
       <<"Positive electrode conductivity [S.m-1]",
           Const(Dec(18, -2))>>,
       <<"Positive electrode density [kg.m-3]",
           Const(Dec(3262, 0))>>,
       <<"Positive electrode diffusivity [m2.s-1]",
           Const(Dec(4, -15))>>,
       <<"Positive electrode electrons in reaction",
           Const(Dec(1, 0))>>,
       <<"Positive electrode exchange-current density [A.m-2]",
           Fn("nmc_LGM50_electrolyte_exchange_current_density_Chen2020")>>,
       <<"Positive electrode OCP [V]",
           Fn("nmc_LGM50_ocp_Chen2020")>>,
       <<"Positive electrode OCP entropic change [V.K-1]",
           Const(Dec(0, 0))>>,
       <<"Positive electrode porosity",
           Const(Dec(335, -3))>>,
       <<"Positive electrode specific heat capacity [J.kg-1.K-1]",
           Const(Long(11286654, 240516666, -13))>>,
       <<"Positive electrode thermal conductivity [W.m-1.K-1]",
           Const(Dec(21, -1))>>,
       <<"Positive electrode thickness [m]",
           Const(Dec(756, -7))>>,
       <<"Positive particle radius [m]",
           Const(Dec(522, -8))>>,
       <<"Reference temperature [K]",
           Const(Dec(29815, -2))>>,
       <<"Separator Bruggeman coefficient (electrolyte)",
           Const(Dec(15, -1))>>,
       <<"Separator density [kg.m-3]",
           Const(Dec(397, 0))>>,
       <<"Separator porosity",
           Const(Dec(47, -2))>>,
       <<"Separator specific heat capacity [J.kg-1.K-1]",
           Const(Long(11286654, 240516666, -13))>>,
       <<"Separator thermal conductivity [W.m-1.K-1]",
           Const(Dec(16, -2))>>,
       <<"Separator thickness [m]",
           Const(Dec(12, -6))>>,
       <<"Total heat transfer coefficient [W.m-2.K-1]",
           Const(Dec(35, 0))>>,
       <<"Typical current [A]",
           Const(Dec(5, 0))>>,
       <<"Typical electrolyte concentration [mol.m-3]",
           Const(Dec(1, 3))>>,
       <<"Upper voltage cut-off [V]",
           Const(Dec(44, -1))>>
    >>

NegativeMaxKey == "Maximum concentration in negative electrode [mol.m-3]"
PositiveMaxKey == "Maximum concentration in positive electrode [mol.m-3]"
NegativeInitialKey == "Initial concentration in negative electrode [mol.m-3]"
PositiveInitialKey == "Initial concentration in positive electrode [mol.m-3]"
ElectrolyteInitialKey == "Initial concentration in electrolyte [mol.m-3]"
NegativeExchangeKey == "Negative electrode exchange-current density [A.m-2]"
PositiveExchangeKey == "Positive electrode exchange-current density [A.m-2]"

\* A Python dict display: the keys of the items and, for a key written
\* more than once, the value of its last item.
DictOf(items) ==
    [k \in {items[i][1] : i \in DOMAIN items} |->
        LET last_i == CHOOSE i \in DOMAIN items :
                          /\ items[i][1] = k
                          /\ \A j \in DOMAIN items : j > i => items[j][1] # k
        IN  items[last_i][2]]

\* ParameterValues(values): the table holding the items of the dict
ParameterValues(values) == [k \in DOMAIN values |-> values[k]]

\* The items with one key written differently
RenameKey(items, old, new) ==
    [i \in DOMAIN items |->
        IF items[i][1] = old THEN <<new, items[i][2]>> ELSE items[i]]

\* The table with the negative maximum concentration under a misspelt key
ModuleTable_MaxKeyMisspelt ==
    ParameterValues(DictOf(RenameKey(TableLiteral, NegativeMaxKey,
        "Maximum concentration in negative electrode [mol.m-3")))

\* The table with the line of the positive maximum concentration left out
ModuleTable_PositiveMaxLeftOut ==
    ParameterValues(DictOf(SelectSeq(TableLiteral, LAMBDA it : it[1] # PositiveMaxKey)))

\* parameter_values = ParameterValues({...})
ModuleTable == ParameterValues(DictOf(TableLiteral))

Ok(v) == [ok |-> TRUE, value |-> v]

\* parameter_values[key]
GetItem(table, key) ==
    IF key \in DOMAIN table THEN Ok(table[key])
    ELSE [ok |-> FALSE, error |-> "KeyError", key |-> key]

\* The table with some keys taken out
Without(table, keys) == [k \in DOMAIN table \ keys |-> table[k]]

IsParameter(s) == "parameter" \in DOMAIN s

\* A Parameter is replaced by the number the table holds under its name; a
\* number stays.
ProcessOperand(table, s) ==
    IF IsParameter(s)
    THEN LET item == GetItem(table, s.parameter)
         IN  IF item.ok THEN Ok(item.value.value) ELSE item
    ELSE Ok(s)

\* Processing the product an exchange-current-density function returned
\* with a table: the difference under the third square root is evaluated
\* with its Parameter looked up in the table.
ProcessSymbol(table, symbol) ==
    LET a == ProcessOperand(table, symbol.roots[3].minuend)
        b == ProcessOperand(table, symbol.roots[3].subtrahend)
    IN  IF ~a.ok THEN a
        ELSE IF ~b.ok THEN b
        ELSE Ok([m_ref |-> symbol.m_ref, arrhenius |-> symbol.arrhenius,
                 roots |-> <<symbol.roots[1], symbol.roots[2],
                             DSub(a.value, b.value)>>])

----------------------------------------------------------------------------
(* squared(value, action="square"): the function src/test.py imports and   *)
(* tests; its module is not among the source files.                        *)

\* squared() deaf to its action
squared_IgnoresAction(value, action) == value * value

squared(value, action) ==
    IF action = "cube" THEN value * value * value ELSE value * value

\* squared(value): the call that leaves action out
squared_default(value) == squared(value, "square")

\* TestSquared.test_squared: both assertEqual hold
test_squared == squared_default(2) = 4 /\ squared_default(0) = 0

\* TestSquared.test_cubed: both assertEqual hold
test_cubed == squared(2, "cube") = 8 /\ squared(0, "cube") = 0

----------------------------------------------------------------------------
(* Bounds of the inputs the model draws *)

\* temperatures 298.15 K + 5 K * k, k in -MaxTempStep .. MaxTempStep
MaxTempStep == 2

\* electrolyte concentrations 500 * k mol.m-3, k in 0 .. MaxConcStep
MaxConcStep == 3

\* electrolyte concentrations 1000 * k^2 mol.m-3, k in 0 .. MaxRootConc,
\* offered to the conductivity
MaxRootConc == 3

\* surface concentrations c_max * k / 2, k in 0 .. MaxSurfHalf
MaxSurfHalf == 3

\* stoichiometries k / 10, k in 0 .. MaxStoTenth
MaxStoTenth == 10

\* squared() is called on -MaxValue .. MaxValue
MaxValue == 3

Temperatures == {Dec(29815 + 500 * k, -2) : k \in -MaxTempStep..MaxTempStep}

ElectrolyteConcentrations == {Dec(500 * k, 0) : k \in 0..MaxConcStep}

\* the concentrations c_e for which (c_e / 1000) ** 1.5 is a whole number
RootConcentrations == {Dec(1000 * k * k, 0) : k \in 0..MaxRootConc}

\* the integer a table constant stands for (the concentrations are whole)
IntOf(c) == c.value.m * Pow10(c.value.e)

\* surface concentrations offered to an exchange-current-density function:
\* halves of the table's maximum, up to and beyond it, and the table's
\* initial concentration
SurfaceConcentrations(table, maxKey, initialKey) ==
    {Dec((IntOf(table[maxKey]) * k) \div 2, 0) : k \in 0..MaxSurfHalf}
        \cup {table[initialKey].value}

Stoichiometries == {Dec(k, -1) : k \in 0..MaxStoTenth}

\* a key the table does not hold
AbsentKeys == {"chemistry"}

\* what the table handed over for processing may lack: nothing, or one of
\* the two maximum concentrations
Removals == {{}, {NegativeMaxKey}, {PositiveMaxKey}}

SquaredActions == {"square", "cube"}

----------------------------------------------------------------------------
(* State *)

VARIABLES
    loaded,            \* the module bpx_lgm50 has been executed
    constructions,     \* how many times ParameterValues(...) has run
    parameter_values,  \* the module's table
    last               \* the most recent call: function, arguments, result

vars == <<loaded, constructions, parameter_values, last>>

Init ==
    /\ loaded = FALSE
    /\ constructions = 0
    /\ parameter_values = [k \in {} |-> Const(Dec(0, 0))]
    /\ last = [fn |-> "none"]

\* Executing the module: the six functions are defined, then the table is
\* built from the dict display.
ModuleLoad ==
    /\ ~loaded
    /\ loaded' = TRUE
    /\ constructions' = constructions + 1
    /\ parameter_values' = ModuleTable
    /\ UNCHANGED last

\* The lookup done as parameter_values.pop(key)
Lookup_Pop(key) ==
    /\ loaded
    /\ last' = [fn |-> "getitem", args |-> <<key>>,
                result |-> GetItem(parameter_values, key)]
    /\ parameter_values' = Without(parameter_values, {key})
    /\ UNCHANGED <<loaded, constructions>>

\* parameter_values[key], by the consumer of the table
Lookup(key) ==
    /\ loaded
    /\ last' = [fn |-> "getitem", args |-> <<key>>,
                result |-> GetItem(parameter_values, key)]
    /\ UNCHANGED <<loaded, constructions, parameter_values>>

CallElectrolyteDiffusivity(c_e, T) ==
    /\ loaded
    /\ last' = [fn |-> "electrolyte_diffusivity_Nyman2008", args |-> <<c_e, T>>,
                result |-> Ok(electrolyte_diffusivity_Nyman2008(c_e, T))]
    /\ UNCHANGED <<loaded, constructions, parameter_values>>

CallElectrolyteConductivity(c_e, T) ==
    /\ loaded
    /\ last' = [fn |-> "electrolyte_conductivity_Nyman2008", args |-> <<c_e, T>>,
                result |-> Ok(electrolyte_conductivity_Nyman2008(c_e, T))]
    /\ UNCHANGED <<loaded, constructions, parameter_values>>

\* The function the table binds to a key, applied to (c_e, c_s_surf, T)
ApplyExchangeCurrentDensity(f, c_e, c_s_surf, T) ==
    IF f = "graphite_LGM50_electrolyte_exchange_current_density_Chen2020"
    THEN graphite_LGM50_electrolyte_exchange_current_density_Chen2020(c_e, c_s_surf, T)
    ELSE nmc_LGM50_electrolyte_exchange_current_density_Chen2020(c_e, c_s_surf, T)

\* The consumer takes the function bound to an exchange-current-density key,
\* calls it and processes the returned product with a table: the module's
\* own, or that table without the keys in removed.
EvaluateExchangeCurrentDensity(key, c_e, c_s_surf, T, removed) ==
    /\ loaded
    /\ LET f == parameter_values[key].name
           symbol == ApplyExchangeCurrentDensity(f, c_e, c_s_surf, T)
       IN  last' = [fn |-> f, key |-> key, args |-> <<c_e, c_s_surf, T>>,
                    removed |-> removed,
                    result |-> ProcessSymbol(Without(parameter_values, removed), symbol)]
    /\ UNCHANGED <<loaded, constructions, parameter_values>>

CallNegativeExchangeCurrentDensity ==
    /\ loaded
    /\ \E c_e \in ElectrolyteConcentrations, T \in Temperatures,
          removed \in Removals :
        \E c_s_surf \in SurfaceConcentrations(parameter_values, NegativeMaxKey,
                                              NegativeInitialKey) :
            EvaluateExchangeCurrentDensity(NegativeExchangeKey, c_e, c_s_surf, T, removed)

CallPositiveExchangeCurrentDensity ==
    /\ loaded
    /\ \E c_e \in ElectrolyteConcentrations, T \in Temperatures,
          removed \in Removals :
        \E c_s_surf \in SurfaceConcentrations(parameter_values, PositiveMaxKey,
                                              PositiveInitialKey) :
            EvaluateExchangeCurrentDensity(PositiveExchangeKey, c_e, c_s_surf, T, removed)

CallGraphiteOcp(sto) ==
    /\ loaded
    /\ last' = [fn |-> "graphite_LGM50_ocp_Chen2020", args |-> <<sto>>,
                result |-> Ok(graphite_LGM50_ocp_Chen2020(sto))]
    /\ UNCHANGED <<loaded, constructions, parameter_values>>

CallNmcOcp(sto) ==
    /\ loaded
    /\ last' = [fn |-> "nmc_LGM50_ocp_Chen2020", args |-> <<sto>>,
                result |-> Ok(nmc_LGM50_ocp_Chen2020(sto))]
    /\ UNCHANGED <<loaded, constructions, parameter_values>>

\* squared(value)
CallSquaredDefault(value) ==
    /\ last' = [fn |-> "squared_default", args |-> <<value>>,
                result |-> Ok(squared_default(value))]
    /\ UNCHANGED <<loaded, constructions, parameter_values>>

\* squared(value, action=action)
CallSquared(value, action) ==
    /\ last' = [fn |-> "squared", args |-> <<value, action>>,
                result |-> Ok(squared(value, action))]
    /\ UNCHANGED <<loaded, constructions, parameter_values>>

Outcome(passes) == IF passes THEN "ok" ELSE "FAIL"

RunTestSquared ==
    /\ last' = [fn |-> "TestSquared.test_squared", args |-> <<>>,
                result |-> Ok(Outcome(test_squared))]
    /\ UNCHANGED <<loaded, constructions, parameter_values>>

RunTestCubed ==
    /\ last' = [fn |-> "TestSquared.test_cubed", args |-> <<>>,
                result |-> Ok(Outcome(test_cubed))]
    /\ UNCHANGED <<loaded, constructions, parameter_values>>

Next ==
    \/ ModuleLoad
    \/ \E key \in DOMAIN parameter_values \cup AbsentKeys : Lookup(key)
    \/ \E c_e \in ElectrolyteConcentrations, T \in Temperatures :
           CallElectrolyteDiffusivity(c_e, T)
    \/ \E c_e \in RootConcentrations, T \in Temperatures :
           CallElectrolyteConductivity(c_e, T)
    \/ CallNegativeExchangeCurrentDensity
    \/ CallPositiveExchangeCurrentDensity
    \/ \E sto \in Stoichiometries : CallGraphiteOcp(sto)
    \/ \E sto \in Stoichiometries : CallNmcOcp(sto)
    \/ \E value \in -MaxValue..MaxValue : CallSquaredDefault(value)
    \/ \E value \in -MaxValue..MaxValue, action \in SquaredActions :
           CallSquared(value, action)
    \/ RunTestSquared
    \/ RunTestCubed

Spec == Init /\ [][Next]_vars

----------------------------------------------------------------------------
(* Properties *)

GraphiteName == "graphite_LGM50_electrolyte_exchange_current_density_Chen2020"
NmcName == "nmc_LGM50_electrolyte_exchange_current_density_Chen2020"

\* the last step evaluated an exchange-current-density function
IsExchangeCall == last.fn \in {GraphiteName, NmcName}

\* the table the last exchange-current-density evaluation was processed with
SuppliedTable == Without(parameter_values, last.removed)

ReferenceTemperature == Dec(29815, -2)

\* C1: once the module is loaded, the name each exchange-current-density
\* function looks up (the negative maximum concentration in the graphite
\* function, the positive one in the NMC function, whatever the arguments)
\* is a key of parameter_values.
C1_ReferentialIntegrity ==
    loaded =>
        \A c_e \in ElectrolyteConcentrations, T \in Temperatures :
            LET g == graphite_LGM50_electrolyte_exchange_current_density_Chen2020(c_e, c_e, T)
                n == nmc_LGM50_electrolyte_exchange_current_density_Chen2020(c_e, c_e, T)
            IN  /\ g.roots[3].minuend = Parameter(NegativeMaxKey)
                /\ n.roots[3].minuend = Parameter(PositiveMaxKey)
                /\ g.roots[3].minuend.parameter \in DOMAIN parameter_values
                /\ n.roots[3].minuend.parameter \in DOMAIN parameter_values

\* the graphite function was evaluated against the module's whole table and
\* its lookup succeeded
C1_Witness ==
    /\ loaded
    /\ last.fn = GraphiteName
    /\ last.removed = {}
    /\ last.result.ok

\* C2: an exchange-current-density function evaluated with a table that
\* lacks the maximum concentration it looks up ends in the missing-key
\* error for that key, and in no value.
C2_MissingParameterFails ==
    /\ (last.fn = GraphiteName /\ NegativeMaxKey \notin DOMAIN SuppliedTable)
           => /\ ~last.result.ok
              /\ last.result.error = "KeyError"
              /\ last.result.key = NegativeMaxKey
    /\ (last.fn = NmcName /\ PositiveMaxKey \notin DOMAIN SuppliedTable)
           => /\ ~last.result.ok
              /\ last.result.error = "KeyError"
              /\ last.result.key = PositiveMaxKey

C2_Witness ==
    /\ last.fn = GraphiteName
    /\ NegativeMaxKey \in last.removed
    /\ ~last.result.ok

\* rate * exp(E / R * (1 / 298.15 - 1 / T)) * sqrt(c_e) * sqrt(c_surf) *
\* sqrt(c_max - c_surf), as the claim writes it
ClaimedExchangeCurrentDensity(rate, E, c_max, c_e, c_surf, T) ==
    [m_ref |-> rate,
     arrhenius |-> [fn |-> "exp",
                    arg |-> [coef |-> [num |-> E, den |-> GasConstantR],
                             diff |-> RSub(RInv(RatOf(ReferenceTemperature)),
                                           RInv(RatOf(T)))]],
     roots |-> <<c_e, c_surf, DSub(c_max, c_surf)>>]

\* C3: the function reached through the negative-electrode key returns the
\* product with rate 6.48e-7, activation energy 35000 and the negative
\* maximum concentration, the one reached through the positive-electrode
\* key the product with rate 3.42e-6, activation energy 17800 and the
\* positive maximum concentration.
C3_ExchangeCurrentDensityFormula ==
    /\ loaded =>
           /\ parameter_values[NegativeExchangeKey] = Fn(GraphiteName)
           /\ parameter_values[PositiveExchangeKey] = Fn(NmcName)
    /\ (IsExchangeCall /\ last.key = NegativeExchangeKey /\ last.result.ok)
           => last.result.value =
                  ClaimedExchangeCurrentDensity(Dec(648, -9), Dec(35000, 0),
                      SuppliedTable[NegativeMaxKey].value,
                      last.args[1], last.args[2], last.args[3])
    /\ (IsExchangeCall /\ last.key = PositiveExchangeKey /\ last.result.ok)
           => last.result.value =
                  ClaimedExchangeCurrentDensity(Dec(342, -8), Dec(17800, 0),
                      SuppliedTable[PositiveMaxKey].value,
                      last.args[1], last.args[2], last.args[3])

\* the positive-electrode function was evaluated away from the reference
\* temperature, on a positive electrolyte and surface concentration
C3_Witness ==
    /\ IsExchangeCall
    /\ last.key = PositiveExchangeKey
    /\ last.result.ok
    /\ last.args[1] = Dec(1000, 0)
    /\ last.args[2] = Dec(17038, 0)
    /\ last.args[3] = Dec(30815, -2)

\* C4: the diffusivity and the conductivity returned for a concentration
\* are the ones returned for the same concentration at every other
\* temperature.
C4_NoTemperatureDependence ==
    /\ last.fn = "electrolyte_diffusivity_Nyman2008" =>
           \A T2 \in Temperatures :
               electrolyte_diffusivity_Nyman2008(last.args[1], T2) = last.result.value
    /\ last.fn = "electrolyte_conductivity_Nyman2008" =>
           \A T2 \in Temperatures :
               electrolyte_conductivity_Nyman2008(last.args[1], T2) = last.result.value

\* the conductivity was evaluated at 4000 mol.m-3 and 308.15 K
C4_Witness ==
    /\ last.fn = "electrolyte_conductivity_Nyman2008"
    /\ last.args[1] = Dec(4000, 0)
    /\ last.args[2] = Dec(30815, -2)

DAbs(a) == IF a.m < 0 THEN DNeg(a) ELSE a

\* the tolerance of the comparisons of a diffusivity: 1e-18 m2.s-1
Near(a, b) == DLe(DAbs(DSub(a, b)), Dec(1, -18))

\* C5 as written: the diffusivity at 1000 mol.m-3 is 4.822e-10.
C5_DiffusivityAt1000_AsClaimed ==
    (last.fn = "electrolyte_diffusivity_Nyman2008" /\ last.args[1] = Dec(1000, 0))
        => Near(last.result.value, Dec(4822, -13))

\* C5, amended: the diffusivity at 1000 mol.m-3, at any temperature, is
\* 8.794e-11 - 3.972e-10 + 4.862e-10 = 1.7694e-10.
C5_DiffusivityAt1000 ==
    (last.fn = "electrolyte_diffusivity_Nyman2008" /\ last.args[1] = Dec(1000, 0))
        => Near(last.result.value, Dec(17694, -14))

C5_Witness ==
    /\ last.fn = "electrolyte_diffusivity_Nyman2008"
    /\ last.args[1] = Dec(1000, 0)
    /\ last.result.value = Dec(17694, -14)

\* the bound function applied to the arguments of the last evaluation, at
\* another temperature
AtTemperature(T2) == ApplyExchangeCurrentDensity(last.fn, last.args[1], last.args[2], T2)

\* C6: the Arrhenius factor of an evaluation is smaller than the factor at
\* every higher temperature and larger than the factor at every lower one,
\* is 1 at 298.15 K and is not 1 at any other temperature.
C6_ArrheniusIncreasing ==
    (IsExchangeCall /\ last.result.ok) =>
        LET a == last.result.value.arrhenius
            T == last.args[3]
        IN  /\ \A T2 \in Temperatures :
                   /\ DLt(T, T2) => ExpLess(a, AtTemperature(T2).arrhenius)
                   /\ DLt(T2, T) => ExpLess(AtTemperature(T2).arrhenius, a)
            /\ ExpIsOne(a) <=> T = ReferenceTemperature

\* the graphite function was evaluated below the reference temperature
C6_Witness ==
    /\ last.fn = GraphiteName
    /\ last.result.ok
    /\ DLt(last.args[3], ReferenceTemperature)
    /\ ~ExpIsOne(last.result.value.arrhenius)

\* C7: the table is built once, and from then on no step changes its keys
\* or the value under any key.
C7_TableNeverMutated ==
    /\ [](loaded => constructions = 1 /\ parameter_values = ModuleTable)
    /\ [][loaded => /\ loaded'
                    /\ constructions' = constructions
                    /\ parameter_values' = parameter_values]_vars

\* a key has been looked up in the loaded table
C7_Witness ==
    /\ loaded
    /\ last.fn = "getitem"
    /\ last.result.ok
    /\ parameter_values = ModuleTable

\* the keys an exchange-current-density evaluation requires of its table
RequiredKeys == {NegativeMaxKey, PositiveMaxKey}

\* the key the function of the last evaluation looks up
LookedUpKey == AtTemperature(ReferenceTemperature).roots[3].minuend.parameter

C9_Squared ==
    /\ last.fn = "squared" =>
           last.result.value =
               IF last.args[2] = "cube"
               THEN last.args[1] * last.args[1] * last.args[1]
               ELSE last.args[1] * last.args[1]
    /\ last.fn = "squared_default" =>
           last.result.value = last.args[1] * last.args[1]
    /\ last.fn \in {"TestSquared.test_squared", "TestSquared.test_cubed"} =>
           last.result.value = "ok"
    /\ squared_default(2) = 4
    /\ squared_default(0) = 0
    /\ squared(2, "cube") = 8
    /\ squared(0, "cube") = 0

C9_Witness ==
    /\ last.fn = "squared"
    /\ last.args = <<-2, "cube">>
    /\ last.result.value = -8

\* every number under a square root of an evaluated product is >= 0
IsReal(v) == \A i \in 1..3 : DSign(v.roots[i]) >= 0

\* C10: the table's initial concentrations lie between 0 and the maximum
\* concentrations, and an evaluation at the initial concentrations takes
\* the square root of no negative number.
C10_InitialStateIsReal ==
    /\ loaded =>
           /\ parameter_values[NegativeInitialKey] = Const(Dec(29866, 0))
           /\ parameter_values[NegativeMaxKey] = Const(Dec(33133, 0))
           /\ parameter_values[PositiveInitialKey] = Const(Dec(17038, 0))
           /\ parameter_values[PositiveMaxKey] = Const(Dec(63104, 0))
           /\ parameter_values[ElectrolyteInitialKey] = Const(Dec(1000, 0))
    /\ \A k \in {<<NegativeExchangeKey, NegativeInitialKey>>,
                 <<PositiveExchangeKey, PositiveInitialKey>>} :
           (/\ IsExchangeCall
            /\ last.key = k[1]
            /\ last.result.ok
            /\ last.args[1] = parameter_values[ElectrolyteInitialKey].value
            /\ last.args[2] = parameter_values[k[2]].value)
               => IsReal(last.result.value)

\* the graphite function was evaluated at the initial concentrations
C10_Witness ==
    /\ last.fn = GraphiteName
    /\ last.result.ok
    /\ last.args[1] = Dec(1000, 0)
    /\ last.args[2] = Dec(29866, 0)
    /\ IsReal(last.result.value)

====
